---- MODULE Spec2Model ----
(***************************************************************************)
(* Model of the download pipeline of src/main_gui.py: the history ledger   *)
(* (ConfigManager.add_history), the media fetcher                          *)
(* (DownloadManager.download_video) and the batch orchestrator             *)
(* (BersoDownloaderApp.start_batch_download, its download_worker thread    *)
(* and batch_download_finished).                                           *)
(*                                                                         *)
(* Two execution contexts are modelled: the presentation context (the Tk   *)
(* main loop, which runs the handlers and the callbacks queued with        *)
(* root.after) and the worker threads started by start_batch_download.     *)
(* A worker step is one of the labelled positions of download_worker /     *)
(* download_video; the presentation context may run between any two.       *)
(*                                                                         *)
(* Callbacks queued with root.after that only configure widgets            *)
(* (update_status, set_progress, selected_count.configure) change no state *)
(* of the pipeline and are left out; the queued batch_download_finished,   *)
(* which clears the batch flag, is modelled.  A message box is modal: the   *)
(* handlers the user triggers run only when none is open, while queued     *)
(* callbacks go on running under it.                                       *)
(***************************************************************************)
EXTENDS Integers, Sequences, FiniteSets, TLC

\* ------------------------------------------------------------------ bounds
\* Number of chapters checked when a batch is submitted (jobs of a batch).
MaxJobs == 2
\* Output lines read from one external process.
MaxLines == 2
\* Worker threads started in one run (batches submitted).
MaxBatches == 1
\* add_history calls of the ledger specification.
MaxAdds == 102

\* ------------------------------------------------------- program constants
\* self.history = self.history[:100]
HistoryCap == 100

\* ------------------------------------------------------------------- state
VARIABLES
    ffmpeg_path,      \* DownloadManager.ffmpeg_path
    settings,         \* ConfigManager.settings
    settings_file,    \* contents of settings.json
    history,          \* ConfigManager.history (newest first)
    history_file,     \* contents of history.json
    course_cards,     \* the chapter cards: task_data, path_var
    downloading,      \* BersoDownloaderApp.downloading
    download_tasks,   \* BersoDownloaderApp.download_tasks
    completed_count,  \* BersoDownloaderApp.completed_count
    failed_count,     \* BersoDownloaderApp.failed_count
    workers,          \* the download_worker threads started so far
    procs,            \* external processes launched and not yet exited
    afterQueue,       \* callbacks queued with root.after(0, ...)
    dialog,           \* the message box on screen, if any
    nAdds,            \* add_history calls made in the ledger specification
    fetch,            \* a download_video call made by a caller of its own
    request,          \* the API request in flight and what the server does
    reply,            \* the value the API client returned for it
    filesystem,       \* the paths that exist on disk
    os_name,          \* os.name
    path_search,      \* what `where ffmpeg` / `which ffmpeg` does
    token,            \* ConfigManager.token
    token_file,       \* contents of token.json
    client,           \* BersoDownloaderApp.client
    accepted,         \* the tokens validate_token has reported valid
    logout_btn,       \* is the logout button shown (update_login_state)
    courses,          \* BersoDownloaderApp.courses
    current_page,     \* BersoDownloaderApp.current_page
    current_course,   \* BersoDownloaderApp.current_course
    threads           \* the listing threads started and not yet returned

\* The state of the download pipeline.
pipelineVars == <<ffmpeg_path, settings, settings_file, history, history_file,
                  course_cards, downloading, download_tasks, completed_count,
                  failed_count, workers, procs, afterQueue, dialog, nAdds>>

\* The state the download pipeline's handlers leave alone.
\* What the course and chapter pages work on.
browseVars == <<courses, current_page, current_course, threads>>

otherVars == <<fetch, request, reply, filesystem, os_name, path_search,
               token, token_file, client, accepted,
               logout_btn, courses, current_page, current_course, threads>>

vars == <<ffmpeg_path, settings, settings_file, history, history_file,
          course_cards, downloading, download_tasks, completed_count,
          failed_count, workers, procs, afterQueue, dialog, nAdds,
          fetch, request, reply, filesystem, os_name, path_search,
          token, token_file, client, accepted,
          logout_btn, courses, current_page, current_course, threads>>

\* ----------------------------------------------------------------- values
\* Python's None for DownloadManager.ffmpeg_path and for duration.
NoPath == "None"
FfmpegExe == "ffmpeg"
NoDuration == -1

\* Python truthiness of a path string or None.
PathTruthy(p) == p # NoPath /\ p # ""

\* Python truthiness of duration (None and 0 are falsy).
DurationTruthy(d) == d # NoDuration /\ d # 0


\* ------------------------------------------------- output lines and parsing
\* A line of the external process's output is a sequence of tokens: literal
\* pieces of text, and HH:MM:SS groups of digits.
Tok(k) == [k |-> k, h |-> 0, m |-> 0, s |-> 0]
HMS(h, m, s) == [k |-> "hms", h |-> h, m |-> m, s |-> s]

\* "  Duration: 00:10:00.05, start: ..."
DurationLine == <<Tok("Duration:"), Tok(" "), HMS(0, 10, 0), Tok(".05, start:")>>
\* "  Duration: 00:00:00.00, ..."
ZeroDurationLine == <<Tok("Duration:"), Tok(" "), HMS(0, 0, 0)>>
\* "  Duration: N/A, ..."
UnknownDurationLine == <<Tok("Duration:"), Tok(" "), Tok("N/A")>>
\* "frame= 100 ... time=00:05:00.00 bitrate=..." (what the tool prints)
TimeLine == <<Tok("frame="), Tok("time="), HMS(0, 5, 0), Tok(".00 bitrate=")>>
\* "time= 00:05:00" (a blank between the marker and the digits)
SpacedTimeLine == <<Tok("time="), Tok(" "), HMS(0, 5, 0)>>
\* any other line
OtherLine == <<Tok("Press [q] to stop")>>

Lines == {DurationLine, ZeroDurationLine, UnknownDurationLine, TimeLine,
          SpacedTimeLine, OtherLine}

\* `"Duration:" in line`, `"time=" in line`
Contains(line, k) == \E i \in 1..Len(line) : line[i].k = k

\* re.search(marker + r' (\d+):(\d+):(\d+)', line): the positions where the
\* marker is followed by one blank and a digit group.
MatchPositions(line, marker) ==
    {i \in 1..Len(line) :
        /\ line[i].k = marker
        /\ i + 2 <= Len(line)
        /\ line[i + 1].k = " "
        /\ line[i + 2].k = "hms"}

Matches(line, marker) == MatchPositions(line, marker) # {}

\* h * 3600 + m * 60 + s of the first match
MatchSeconds(line, marker) ==
    LET i == CHOOSE j \in MatchPositions(line, marker) :
                 \A l \in MatchPositions(line, marker) : j <= l
        g == line[i + 2]
    IN  g.h * 3600 + g.m * 60 + g.s

\* lines 368-372: the duration after the line has been read
ParseDuration(line, duration) ==
    IF Contains(line, "Duration:") /\ Matches(line, "Duration:")
    THEN MatchSeconds(line, "Duration:")
    ELSE duration

\* Variant: the `and duration` test of line 374 left out.
ReportsProgressAnyTime(line, duration) ==
    /\ Contains(line, "time=")
    /\ Matches(line, "time=")

\* lines 374-376: does the line lead to a progress callback
ReportsProgress(line, duration) ==
    /\ Contains(line, "time=")
    /\ DurationTruthy(duration)
    /\ Matches(line, "time=")

\* line 379: progress = (current / duration) * 100, kept as the exact
\* fraction num / den.
ProgressValue(current, duration) == [num |-> current * 100, den |-> duration]

\* Placeholder in log records that carry no progress value.
NoProgress == [num |-> 0, den |-> 1]

\* ------------------------------------------------------------ history ledger
\* lines 261-263: insert at the front, keep the first 100.
Truncate(s, n) == IF Len(s) <= n THEN s ELSE SubSeq(s, 1, n)

\* Variant: append() in place of insert(0, ...).
InsertCappedAtEnd(h, item) == Truncate(h \o <<item>>, HistoryCap)

InsertCapped(h, item) == Truncate(<<item>> \o h, HistoryCap)

\* Contents of history.json.
AbsentFile == [state |-> "absent", items |-> <<>>]
WrittenFile(items) == [state |-> "valid", items |-> items]
\* json.dump interrupted: the file is left truncated.
BrokenFile == [state |-> "corrupt", items |-> <<>>]

\* Outcomes of lines 264-265: the write succeeds, open() raises (the file is
\* untouched), or json.dump raises after open() truncated the file.
WriteOutcomes == {"ok", "open_error", "dump_error"}

FileAfterWrite(file, items, outcome) ==
    CASE outcome = "ok" -> WrittenFile(items)
      [] outcome = "open_error" -> file
      [] OTHER -> BrokenFile

\* ----------------------------------------------------------------- chapters
NoRecords == <<>>
NoLocation == <<[location |-> "", locationPath |-> ""]>>
Located == <<[location |-> "L1", locationPath |-> ""]>>
LocatedByPath == <<[location |-> "", locationPath |-> "P1"]>>

\* The chapter listing shown: one chapter of each kind.
Listing == <<Located, NoRecords, NoLocation, LocatedByPath>>

ChapterName(i) == <<"Ch", i>>
DefaultPath(i) == <<"downloads", ChapterName(i), ".mp4">>

Card(i, recordFiles) ==
    [task_data |-> [name |-> ChapterName(i), recordFiles |-> recordFiles],
     path_var |-> DefaultPath(i)]

\* line 2000: record_file.get("location") or record_file.get("locationPath")
LocationOf(record_file) ==
    IF record_file.location # "" THEN record_file.location
    ELSE record_file.locationPath

\* line 2008
ManifestUrl(location_path) ==
    <<"https://filecdn.plaso.com/liveclass/plaso/", location_path, "/a1/a.m3u8">>

\* ------------------------------------------------------------------ settings
DefaultSettings ==
    [download_path |-> "./downloads", ffmpeg_path |-> "", theme |-> "light",
     max_concurrent |-> 1]

\* Values of the tool-path field of the settings page.
PathInputs == {"", FfmpegExe}


\* ------------------------------------------------- presentation-side events
\* Variant: the worker's last callback is one more status update.
StatusEvent == [ev |-> "update_status"]

\* self.root.after(0, self.batch_download_finished)   (line 2043)
FinishedEvent == [ev |-> "batch_download_finished"]

\* A message box: its kind and, for the batch result, the three counts.
Message(kind) == [kind |-> kind, succeeded |-> 0, failed |-> 0, total |-> 0]

\* On success the completion message is the file size, f"{file_size:.1f}MB".
Sizes == {"1.5MB"}

\* ------------------------------------------------------------ worker threads
NoCallback == [success |-> FALSE, message |-> "", inTry |-> FALSE]

\* A download_worker thread right after thread.start().  Next to its position
\* and locals it keeps a record of what it did: the jobs it started, the jobs
\* it called download_video for, the status it gave each job, the jobs whose
\* processing ended, the history entries it added, and for the current
\* download_video call the callbacks made and whether a line with a duration
\* marker, or with a time marker, has been read.
NewWorker ==
    [pc |-> "begin", idx |-> 0, tasks |-> <<>>, total |-> 0,
     duration |-> NoDuration, nLines |-> 0, durationSeen |-> FALSE,
     timeSeen |-> FALSE, cb |-> NoCallback, cbLog |-> <<>>,
     started |-> <<>>, calls |-> <<>>, marks |-> <<>>, ended |-> <<>>,
     added |-> <<>>]

\* The records of threads that have ended are dropped when a new batch is
\* accepted: what is kept is the record of the batch in progress.
Forget(ws) ==
    [w \in DOMAIN ws |-> IF ws[w].pc = "ended" THEN [NewWorker EXCEPT !.pc = "ended"]
                          ELSE ws[w]]

\* c.update_status(text, ...) requested for job i: "no_video" (无视频),
\* "no_address" (无地址), "failed" (失败), "succeeded" (the size message).
Mark(i, text) == [job |-> i, status |-> text]

\* ------------------------------------------------- a download_video call
\* The frame of one download_video call made directly by a caller that passes
\* callbacks of its own: its position, the duration local, the lines read,
\* the callback invocations made so far, whether the directory was created
\* and a process launched, how the process ended, and how the call ended.
NoFetch ==
    [pc |-> "idle", tool |-> "None", duration |-> NoDuration,
     nLines |-> 0, log |-> <<>>, mkdir |-> FALSE, launched |-> FALSE,
     returncode |-> -1, exists |-> FALSE, bytes |-> 0, ret |-> "none",
     faults |-> 0]

\* ------------------------------------------------------------ API requests
\* JSON values of a response body's fields, and Python's None.
JAbsent == [t |-> "absent", n |-> 0, items |-> <<>>]
JNull == [t |-> "null", n |-> 0, items |-> <<>>]
JInt(n) == [t |-> "int", n |-> n, items |-> <<>>]
JStr(n) == [t |-> "str", n |-> n, items |-> <<>>]
JList(items) == [t |-> "list", n |-> 0, items |-> items]
JDict(keys) == [t |-> "dict", n |-> 0, items |-> keys]

\* No request has been made; no value has been returned.
NoRequest == [op |-> "none", outcome |-> "none", status |-> 0, body |-> "none",
              code |-> JAbsent, obj |-> JAbsent]
NoReply == [kind |-> "none", success |-> FALSE, message |-> "", value |-> JAbsent]

\* ----------------------------------------------------- executable lookup
\* subprocess.run(["where"/"which", "ffmpeg"]): the exit code and the lines of
\* its output, or the call raises.
SearchFails == [raises |-> FALSE, returncode |-> 1, lines |-> <<>>]
SearchFinds(lines) == [raises |-> FALSE, returncode |-> 0, lines |-> lines]
SearchRaises == [raises |-> TRUE, returncode |-> 1, lines |-> <<>>]

\* ------------------------------------------------------------- token store
\* ConfigManager.token when nothing is stored: {}
NoToken == [access_token |-> "", user_info |-> JAbsent]
TokenData(t, user_info) == [access_token |-> t, user_info |-> user_info]
\* token.json: absent, holding a token, or left truncated by a failed write
AbsentTokenFile == [state |-> "absent", data |-> NoToken]
TokenFile(data) == [state |-> "valid", data |-> data]
BrokenTokenFile == [state |-> "corrupt", data |-> NoToken]
\* self.client = None
NoClient == "None"

\* self.current_course = None (line 593); a course of the listing otherwise
NoCourse == [title |-> <<>>, originId |-> <<>>, dirId |-> <<>>]

\* ---------------------------------------------------------------------- Init
\* The pipeline after construction: the executable lookup found the tool or
\* not, and nobody is logged in.  filesystem and path_search are the host as
\* it is from now on; the handlers of the pipeline do not look at it again.
Init ==
    /\ ffmpeg_path \in {NoPath, FfmpegExe}
    /\ settings = DefaultSettings
    /\ settings_file = [state |-> "absent", items |-> DefaultSettings]
    /\ history = <<>>
    /\ history_file = AbsentFile
    /\ course_cards = [i \in 1..Len(Listing) |-> Card(i, Listing[i])]
    /\ downloading = FALSE
    /\ download_tasks = <<>>
    /\ completed_count = 0
    /\ failed_count = 0
    /\ workers = <<>>
    /\ procs = 0
    /\ afterQueue = <<>>
    /\ dialog = Message("none")
    /\ nAdds = 0
    /\ fetch = NoFetch
    /\ request = NoRequest
    /\ reply = NoReply
    /\ filesystem = {}
    /\ os_name = "nt"
    /\ path_search = SearchFails
    /\ token = NoToken
    /\ token_file = AbsentTokenFile
    /\ client = NoClient
    /\ accepted = {}
    /\ logout_btn = FALSE
    /\ courses = <<>>
    /\ current_page = "courses"
    /\ current_course = NoCourse
    /\ threads = {}


\* ------------------------------------------------ ConfigManager.add_history
HistoryEntry(title, path, size) ==
    [title |-> title, path |-> path, date |-> "now", size |-> size]

\* The in-memory list is replaced before the file is opened, so it keeps the
\* new entry also when the write raises.
add_history(item, outcome) ==
    /\ history' = InsertCapped(history, item)
    /\ history_file' = FileAfterWrite(history_file, InsertCapped(history, item), outcome)

\* --------------------------------------- BersoDownloaderApp.save_settings
save_settings(path) ==
    /\ dialog.kind = "none"
    /\ settings' = [settings EXCEPT !.ffmpeg_path = path]
    /\ settings_file' = [state |-> "valid",
                         items |-> [settings EXCEPT !.ffmpeg_path = path]]
    /\ ffmpeg_path' = path
    /\ dialog' = Message("settings_saved")
    /\ UNCHANGED <<history, history_file, course_cards, downloading,
                   download_tasks, completed_count, failed_count, workers,
                   procs, afterQueue, nAdds>>
    /\ UNCHANGED otherVars

\* --------------------------------- BersoDownloaderApp.start_batch_download
\* lines 1946-1954: the checked cards, in card order.
RECURSIVE SelectedFrom(_, _)
SelectedFrom(i, checked) ==
    IF i > Len(course_cards) THEN <<>>
    ELSE (IF i \in checked
          THEN <<[task_data |-> course_cards[i].task_data,
                  save_path |-> course_cards[i].path_var,
                  card |-> i]>>
          ELSE <<>>) \o SelectedFrom(i + 1, checked)

\* The sets of cards the user may have checked.
CheckedSets == {c \in SUBSET DOMAIN course_cards : Cardinality(c) <= MaxJobs}

\* Variant: the flag is not looked at.
BatchRunningNever == FALSE

\* line 1960
BatchRunning == downloading

\* Variant: `is None` in place of `not`.
ToolMissingNoneOnly == ffmpeg_path = NoPath

\* line 1965
ToolMissing == ~PathTruthy(ffmpeg_path)

start_batch_download(checked) ==
    LET selected_tasks == SelectedFrom(1, checked) IN
    /\ dialog.kind = "none"
    /\ IF selected_tasks = <<>>
       THEN /\ dialog' = Message("select_chapters_first")
            /\ UNCHANGED <<downloading, download_tasks, completed_count,
                           failed_count, workers>>
       ELSE IF BatchRunning
       THEN /\ dialog' = Message("download_in_progress")
            /\ UNCHANGED <<downloading, download_tasks, completed_count,
                           failed_count, workers>>
       ELSE IF ToolMissing
       THEN \* showerror, then show_settings()
            /\ dialog' = Message("ffmpeg_not_detected")
            /\ UNCHANGED <<downloading, download_tasks, completed_count,
                           failed_count, workers>>
       ELSE /\ Len(workers) < MaxBatches
            /\ downloading' = TRUE
            /\ download_tasks' = selected_tasks
            /\ completed_count' = 0
            /\ failed_count' = 0
            /\ workers' = Append(Forget(workers), NewWorker)
            /\ UNCHANGED dialog
    /\ UNCHANGED <<ffmpeg_path, settings, settings_file, history, history_file,
                   course_cards, procs, afterQueue, nAdds>>
    /\ UNCHANGED otherVars

\* The user closes the message box.
DismissDialog ==
    /\ dialog.kind # "none"
    /\ dialog' = Message("none")
    /\ UNCHANGED <<ffmpeg_path, settings, settings_file, history, history_file,
                   course_cards, downloading, download_tasks, completed_count,
                   failed_count, workers, procs, afterQueue, nAdds>>
    /\ UNCHANGED otherVars

\* -------------------------------- BersoDownloaderApp.batch_download_finished
batch_download_finished ==
    /\ downloading' = FALSE
    /\ dialog' = [kind |-> "batch_result", succeeded |-> completed_count,
                  failed |-> failed_count, total |-> Len(download_tasks)]

\* ------------------------------------------------------- the Tk main loop
\* Runs the oldest callback queued with root.after.
RunAfter ==
    /\ afterQueue # <<>>
    /\ Head(afterQueue).ev = "batch_download_finished"
    /\ afterQueue' = Tail(afterQueue)
    /\ batch_download_finished
    /\ UNCHANGED <<ffmpeg_path, settings, settings_file, history, history_file,
                   course_cards, download_tasks, completed_count, failed_count,
                   workers, procs, nAdds>>
    /\ UNCHANGED otherVars

\* ------------------------------------------------------------ download_worker
\* Thread start: total = len(self.download_tasks) and the list the for loop
\* iterates (lines 1979, 1981).
WorkerBegin(w) ==
    /\ workers[w].pc = "begin"
    /\ workers' = [workers EXCEPT ![w].pc = "loop",
                                  ![w].total = Len(download_tasks),
                                  ![w].tasks = download_tasks]
    /\ UNCHANGED <<ffmpeg_path, settings, settings_file, history, history_file,
                   course_cards, downloading, download_tasks, completed_count,
                   failed_count, procs, afterQueue, dialog, nAdds>>
    /\ UNCHANGED otherVars

\* Variant: the flag is not read.
MayStartJobAlways == TRUE

\* line 1982: the flag is read before each job
MayStartJob == downloading

\* Variant: every other job of the list.
NextJobSkipping(i) == i + 2

\* line 1981: the job after job i of the list
NextJob(i) == i + 1

\* Variant: the test of lines 2002-2006 left out.
JobFaultEmptyOnly(task) ==
    IF task.task_data.recordFiles = <<>> THEN "no_video" ELSE "none"

\* lines 1992-2006: why the job cannot be fetched, if so
JobFault(task) ==
    IF task.task_data.recordFiles = <<>> THEN "no_video"
    ELSE IF LocationOf(task.task_data.recordFiles[1]) = "" THEN "no_address"
    ELSE "none"

\* The head of the for loop (lines 1981-2008): the loop ends, or breaks, or the
\* next job is marked failed, or it goes on to download_video.
WorkerNext(w) ==
    LET me == workers[w]
        i == NextJob(me.idx)
    IN
    /\ me.pc = "loop"
    /\ IF i > Len(me.tasks) \/ ~MayStartJob
       THEN \* line 2043; the thread ends and its locals are gone
            /\ workers' = [workers EXCEPT ![w].pc = "ended",
                              ![w].duration = NoDuration,
                              ![w].nLines = 0,
                              ![w].durationSeen = FALSE,
                              ![w].timeSeen = FALSE,
                              ![w].cbLog = <<>>]
            /\ afterQueue' = Append(afterQueue, FinishedEvent)
            /\ UNCHANGED failed_count
       ELSE LET fault == JobFault(me.tasks[i]) IN
            /\ UNCHANGED afterQueue
            /\ IF fault # "none"
               THEN \* lines 1994-1997, 2003-2006: mark, count, continue
                    /\ failed_count' = failed_count + 1
                    /\ workers' = [workers EXCEPT ![w].idx = i,
                                      ![w].started = Append(me.started, i),
                                      ![w].marks = Append(me.marks, Mark(i, fault)),
                                      ![w].ended = Append(me.ended, i)]
               ELSE /\ UNCHANGED failed_count
                    /\ workers' = [workers EXCEPT ![w].pc = "download_video",
                                      ![w].idx = i - 1,
                                      ![w].started = Append(me.started, i),
                                      ![w].calls = Append(me.calls, i),
                                      ![w].duration = NoDuration,
                                      ![w].nLines = 0,
                                      ![w].durationSeen = FALSE,
                                      ![w].timeSeen = FALSE,
                                      ![w].cbLog = <<>>,
                                      ![w].cb = NoCallback]
    /\ UNCHANGED <<ffmpeg_path, settings, settings_file, history, history_file,
                   course_cards, downloading, download_tasks, completed_count,
                   procs, dialog, nAdds>>
    /\ UNCHANGED otherVars

\* ------------------------------------------- DownloadManager.download_video
\* lines 331-334
DvEnter(w) ==
    /\ workers[w].pc = "download_video"
    /\ IF ~PathTruthy(ffmpeg_path)
       THEN workers' = [workers EXCEPT ![w].pc = "callback",
                           ![w].cb = [success |-> FALSE, message |-> "ffmpeg_not_found",
                                      inTry |-> FALSE]]
       ELSE workers' = [workers EXCEPT ![w].pc = "launch"]
    /\ UNCHANGED <<ffmpeg_path, settings, settings_file, history, history_file,
                   course_cards, downloading, download_tasks, completed_count,
                   failed_count, procs, afterQueue, dialog, nAdds>>
    /\ UNCHANGED otherVars

\* lines 337-357: mkdir and Popen; either may raise, and the handler of
\* lines 396-400 then calls the completion callback.
DvLaunch(w, launched) ==
    /\ workers[w].pc = "launch"
    /\ IF launched
       THEN /\ workers' = [workers EXCEPT ![w].pc = "read"]
            /\ procs' = procs + 1
       ELSE /\ workers' = [workers EXCEPT ![w].pc = "callback",
                              ![w].cb = [success |-> FALSE, message |-> "error_text",
                                         inTry |-> FALSE]]
            /\ UNCHANGED procs
    /\ UNCHANGED <<ffmpeg_path, settings, settings_file, history, history_file,
                   course_cards, downloading, download_tasks, completed_count,
                   failed_count, afterQueue, dialog, nAdds>>
    /\ UNCHANGED otherVars

\* The record of one callback invocation.
ProgressCall(value) ==
    [cb |-> "progress", value |-> value, success |-> FALSE, message |-> ""]
CompletionCall(success, message) ==
    [cb |-> "completion", value |-> NoProgress, success |-> success, message |-> message]

\* lines 362-382: one line of output
DvReadLine(w, line) ==
    LET me == workers[w]
        duration == ParseDuration(line, me.duration)
        seen == me.durationSeen \/ Contains(line, "Duration:")
        timed == me.timeSeen \/ Contains(line, "time=")
    IN
    /\ me.pc = "read"
    /\ me.nLines < MaxLines
    /\ IF ReportsProgress(line, duration)
       THEN workers' = [workers EXCEPT ![w].duration = duration,
                           ![w].nLines = me.nLines + 1,
                           ![w].durationSeen = seen,
                           ![w].timeSeen = timed,
                           ![w].cbLog = Append(me.cbLog,
                               ProgressCall(ProgressValue(MatchSeconds(line, "time="),
                                                          duration)))]
       ELSE workers' = [workers EXCEPT ![w].duration = duration,
                           ![w].nLines = me.nLines + 1,
                           ![w].durationSeen = seen,
                           ![w].timeSeen = timed]
    /\ UNCHANGED <<ffmpeg_path, settings, settings_file, history, history_file,
                   course_cards, downloading, download_tasks, completed_count,
                   failed_count, procs, afterQueue, dialog, nAdds>>
    /\ UNCHANGED otherVars

\* lines 364-365, 384-394: end of output, the process has exited
DvExit(w, returncode, exists, size) ==
    /\ workers[w].pc = "read"
    /\ procs' = procs - 1
    /\ IF returncode = 0 /\ exists
       THEN workers' = [workers EXCEPT ![w].pc = "callback",
                           ![w].cb = [success |-> TRUE, message |-> size, inTry |-> TRUE]]
       ELSE workers' = [workers EXCEPT ![w].pc = "callback",
                           ![w].cb = [success |-> FALSE, message |-> "download_failed",
                                      inTry |-> TRUE]]
    /\ UNCHANGED <<ffmpeg_path, settings, settings_file, history, history_file,
                   course_cards, downloading, download_tasks, completed_count,
                   failed_count, afterQueue, dialog, nAdds>>
    /\ UNCHANGED otherVars

\* lines 2014-2034: finished_callback(success, message), called by
\* download_video.  A success adds the history entry; when that write raises,
\* the exception leaves the callback and, the call being inside
\* download_video's try, reaches the handler of lines 396-400, which calls the
\* callback again with (False, str(e)).
FinishedCallback(w, outcome) ==
    LET me == workers[w]
        i == me.idx + 1
        task == me.tasks[i]
        cb == me.cb
        logged == Append(me.cbLog, CompletionCall(cb.success, cb.message))
    IN
    /\ me.pc = "callback"
    /\ IF cb.success
       THEN LET entry == HistoryEntry(task.task_data.name, task.save_path, cb.message) IN
            /\ completed_count' = completed_count + 1
            /\ add_history(entry, outcome)
            /\ UNCHANGED failed_count
            /\ IF outcome = "ok"
               THEN workers' = [workers EXCEPT ![w].pc = "loop",
                                   ![w].idx = i,
                                   ![w].cbLog = logged,
                                   ![w].cb = NoCallback,
                                   ![w].marks = Append(me.marks, Mark(i, "succeeded")),
                                   ![w].added = Append(me.added, entry),
                                   ![w].ended = Append(me.ended, i)]
               ELSE workers' = [workers EXCEPT ![w].cbLog = logged,
                                   ![w].marks = Append(me.marks, Mark(i, "succeeded")),
                                   ![w].added = Append(me.added, entry),
                                   ![w].cb = [success |-> FALSE,
                                              message |-> "error_text",
                                              inTry |-> FALSE]]
       ELSE /\ outcome = "ok"
            /\ failed_count' = failed_count + 1
            /\ workers' = [workers EXCEPT ![w].pc = "loop",
                              ![w].idx = i,
                              ![w].cbLog = logged,
                              ![w].cb = NoCallback,
                              ![w].marks = Append(me.marks, Mark(i, "failed")),
                              ![w].ended = Append(me.ended, i)]
            /\ UNCHANGED <<completed_count, history, history_file>>
    /\ UNCHANGED <<ffmpeg_path, settings, settings_file, course_cards,
                   downloading, download_tasks, procs, afterQueue, dialog, nAdds>>
    /\ UNCHANGED otherVars

\* ------------------------------------------------------------ specification
\* The steps of the worker threads.
WorkerStep ==
    \/ \E w \in DOMAIN workers : WorkerBegin(w)
    \/ \E w \in DOMAIN workers : WorkerNext(w)
    \/ \E w \in DOMAIN workers : DvEnter(w)
    \/ \E w \in DOMAIN workers : \E launched \in BOOLEAN : DvLaunch(w, launched)
    \/ \E w \in DOMAIN workers : \E line \in Lines : DvReadLine(w, line)
    \/ \E w \in DOMAIN workers : \E returncode \in {0, 1} : \E exists \in BOOLEAN :
          \E size \in Sizes : DvExit(w, returncode, exists, size)
    \/ \E w \in DOMAIN workers : \E outcome \in WriteOutcomes : FinishedCallback(w, outcome)

Next ==
    \/ \E checked \in CheckedSets : start_batch_download(checked)
    \/ \E path \in PathInputs : save_settings(path)
    \/ DismissDialog
    \/ RunAfter
    \/ WorkerStep

Spec == Init /\ [][Next]_vars

\* The worker thread is scheduled while it has a step to take, the external
\* process ends (no more than MaxLines lines of output), and the Tk main loop
\* runs what root.after queued.
SpecLive == Spec /\ WF_vars(WorkerStep) /\ WF_vars(RunAfter)

\* ------------------------------------------------- the ledger on its own
\* The n-th entry handed to add_history.
Item(n) == HistoryEntry(ChapterName(n), DefaultPath(n), "1.5MB")

\* One add_history call that returns.
AddHistoryCall ==
    /\ nAdds < MaxAdds
    /\ nAdds' = nAdds + 1
    /\ add_history(Item(nAdds + 1), "ok")
    /\ UNCHANGED <<ffmpeg_path, settings, settings_file, course_cards,
                   downloading, download_tasks, completed_count, failed_count,
                   workers, procs, afterQueue, dialog>>
    /\ UNCHANGED otherVars

InitHistory == Init /\ ffmpeg_path = NoPath

NextHistory == AddHistoryCall

SpecHistory == InitHistory /\ [][NextHistory]_vars

\* --------------------------------------------------- a cancelled batch
\* The batch flag is cleared while a batch runs.  No handler of the
\* application does this; the step stands for the cancellation of section 4.3
\* and section 8 of the specification.
CancelBatch ==
    /\ downloading
    /\ downloading' = FALSE
    /\ UNCHANGED <<ffmpeg_path, settings, settings_file, history, history_file,
                   course_cards, download_tasks, completed_count, failed_count,
                   workers, procs, afterQueue, dialog, nAdds>>
    /\ UNCHANGED otherVars

\* The batch after a cancelled one is submitted once the cancelled batch's
\* worker has ended.
NoOverlap ==
    Len(workers') > Len(workers) => \A w \in DOMAIN workers : workers[w].pc = "ended"

\* The cancellation scenario: batches, their workers and the cancellation,
\* with the settings left alone.
NextCancel ==
    \/ \E checked \in CheckedSets : start_batch_download(checked) /\ NoOverlap
    \/ DismissDialog
    \/ RunAfter
    \/ WorkerStep
    \/ CancelBatch

SpecCancel == Init /\ [][NextCancel]_vars


\* ------------------------------------- download_video called on its own
\* The caller's callbacks are arbitrary functions: every invocation either
\* returns or raises.

\* Variant: `is not None` in place of truthiness.
FetchHasToolNotNone(path) == path # NoPath

\* line 331: `if not self.ffmpeg_path`
FetchHasTool(path) == PathTruthy(path)

\* line 387 and the format of line 389: st_size / (1024 * 1024) printed with
\* one decimal, f"{file_size:.1f}MB"; ties go to the even digit.  The result is
\* the number of tenths of a megabyte shown.
BytesPerMB == 1048576
SizeTenths(bytes) ==
    LET n == bytes * 10
        q == n \div BytesPerMB
        r == n % BytesPerMB
    IN  IF 2 * r < BytesPerMB THEN q
        ELSE IF 2 * r > BytesPerMB THEN q + 1
        ELSE IF q % 2 = 0 THEN q ELSE q + 1

SizeText(bytes) ==
    <<SizeTenths(bytes) \div 10, ".", SizeTenths(bytes) % 10, "MB">>

\* Sizes of the output file: 0.25 MB (a tie), 1.5 MB, 1.55 MB.
FileBytes == {262144, 1572864, 1625293}

\* lines 331-336: the call begins
FetchCall(raises) ==
    /\ fetch.pc = "idle"
    /\ IF ~FetchHasTool(ffmpeg_path)
       THEN fetch' = [fetch EXCEPT
                         !.tool = ffmpeg_path,
                         !.log = Append(@, CompletionCall(FALSE, "ffmpeg_not_found")),
                         !.pc = IF raises THEN "raised" ELSE "returned",
                         !.ret = IF raises THEN "none" ELSE "False"]
       ELSE /\ ~raises
            /\ fetch' = [fetch EXCEPT !.tool = ffmpeg_path, !.pc = "launch"]
    /\ UNCHANGED pipelineVars
    /\ UNCHANGED browseVars
    /\ UNCHANGED <<request, reply, filesystem, os_name, path_search,
                   token, token_file, client, accepted,
                   logout_btn>>

\* lines 337-357: mkdir, then Popen; either may raise
LaunchOutcomes == {"ok", "mkdir_error", "popen_error"}

FetchLaunch(outcome) ==
    /\ fetch.pc = "launch"
    /\ IF outcome = "ok"
       THEN /\ fetch' = [fetch EXCEPT !.pc = "read", !.mkdir = TRUE,
                                      !.launched = TRUE]
            /\ procs' = procs + 1
       ELSE /\ fetch' = [fetch EXCEPT !.pc = "handler",
                                      !.mkdir = (outcome = "popen_error"),
                                      !.faults = @ + 1]
            /\ UNCHANGED procs
    /\ UNCHANGED <<ffmpeg_path, settings, settings_file, history, history_file,
                   course_cards, downloading, download_tasks, completed_count,
                   failed_count, workers, afterQueue, dialog, nAdds>>
    /\ UNCHANGED browseVars
    /\ UNCHANGED <<request, reply, filesystem, os_name, path_search,
                   token, token_file, client, accepted,
                   logout_btn>>

\* lines 362-382: one line of output; the progress callback may raise
FetchReadLine(line, raises) ==
    LET duration == ParseDuration(line, fetch.duration) IN
    /\ fetch.pc = "read"
    /\ fetch.nLines < MaxLines
    /\ IF ReportsProgress(line, duration)
       THEN fetch' = [fetch EXCEPT
                         !.duration = duration,
                         !.nLines = @ + 1,
                         !.log = Append(@, ProgressCall(
                                    ProgressValue(MatchSeconds(line, "time="), duration))),
                         !.pc = IF raises THEN "handler" ELSE "read",
                         !.faults = IF raises THEN @ + 1 ELSE @]
       ELSE /\ ~raises
            /\ fetch' = [fetch EXCEPT !.duration = duration, !.nLines = @ + 1]
    /\ UNCHANGED pipelineVars
    /\ UNCHANGED browseVars
    /\ UNCHANGED <<request, reply, filesystem, os_name, path_search,
                   token, token_file, client, accepted,
                   logout_btn>>

\* lines 364-365, 384-394: the process has exited; the completion callback is
\* called inside the try block
FetchExit(returncode, exists, bytes, raises) ==
    LET success == returncode = 0 /\ exists
        call == IF success THEN CompletionCall(TRUE, SizeText(bytes))
                ELSE CompletionCall(FALSE, "download_failed")
    IN
    /\ fetch.pc = "read"
    /\ procs' = procs - 1
    /\ fetch' = [fetch EXCEPT
                    !.returncode = returncode,
                    !.exists = exists,
                    !.bytes = IF success THEN bytes ELSE 0,
                    !.log = Append(@, call),
                    !.pc = IF raises THEN "handler" ELSE "returned",
                    !.faults = IF raises THEN @ + 1 ELSE @,
                    !.ret = IF raises THEN "none"
                            ELSE IF success THEN "True" ELSE "False"]
    /\ UNCHANGED <<ffmpeg_path, settings, settings_file, history, history_file,
                   course_cards, downloading, download_tasks, completed_count,
                   failed_count, workers, afterQueue, dialog, nAdds>>
    /\ UNCHANGED browseVars
    /\ UNCHANGED <<request, reply, filesystem, os_name, path_search,
                   token, token_file, client, accepted,
                   logout_btn>>

\* lines 396-400: the handler calls the completion callback, outside any try
FetchHandler(raises) ==
    /\ fetch.pc = "handler"
    /\ fetch' = [fetch EXCEPT
                    !.log = Append(@, CompletionCall(FALSE, "error_text")),
                    !.pc = IF raises THEN "raised" ELSE "returned",
                    !.ret = IF raises THEN "none" ELSE "False"]
    /\ UNCHANGED pipelineVars
    /\ UNCHANGED browseVars
    /\ UNCHANGED <<request, reply, filesystem, os_name, path_search,
                   token, token_file, client, accepted,
                   logout_btn>>

NextFetch ==
    \/ \E raises \in BOOLEAN : FetchCall(raises)
    \/ \E outcome \in LaunchOutcomes : FetchLaunch(outcome)
    \/ \E line \in Lines : \E raises \in BOOLEAN : FetchReadLine(line, raises)
    \/ \E returncode \in {0, 1} : \E exists \in BOOLEAN : \E bytes \in FileBytes :
          \E raises \in BOOLEAN : FetchExit(returncode, exists, bytes, raises)
    \/ \E raises \in BOOLEAN : FetchHandler(raises)
    \/ \E path \in PathInputs : save_settings(path)
    \/ DismissDialog

SpecFetch == Init /\ [][NextFetch]_vars

\* -------------------------------------------------------------- API client
\* What the server and the transport do with a request: the transport raises
\* (a timeout, a refused connection), or a response arrives with a status and
\* a body that is not JSON, a JSON array, or a JSON object with its code and
\* obj fields.
Exchange(outcome, status, body, code, obj) ==
    [outcome |-> outcome, status |-> status, body |-> body, code |-> code,
     obj |-> obj]

Statuses == {200, 401, 500}
Codes == {JAbsent, JInt(0), JInt(1), JStr(0)}
Payloads == {JAbsent, JNull, JList(<<>>), JList(<<"c1", "c2">>),
             JDict(<<"name", "myOrg">>)}

Exchanges ==
    {Exchange(o, 0, "none", JAbsent, JAbsent) : o \in {"timeout", "connect_error"}}
    \cup {Exchange("response", st, b, JAbsent, JAbsent) :
             st \in Statuses, b \in {"not_json", "array"}}
    \cup {Exchange("response", st, "object", c, o) :
             st \in Statuses, c \in Codes, o \in Payloads}

ApiOps == {"validate_token", "get_course_list", "get_task_list"}

Request(op, x) ==
    [op |-> op, outcome |-> x.outcome, status |-> x.status, body |-> x.body,
     code |-> x.code, obj |-> x.obj]

\* What a call hands back: a value, or an exception that leaves it.
Raised == [kind |-> "raised", success |-> FALSE, message |-> "error_text",
           value |-> JAbsent]
\* {"success": True, "user_info": ...} / {"success": False, "message": ...}
Verdict(success, message, user_info) ==
    [kind |-> "value", success |-> success, message |-> message,
     value |-> user_info]
\* a list returned by get_course_list / get_task_list
Listed(value) == [kind |-> "value", success |-> FALSE, message |-> "", value |-> value]

\* result.get("code") == 0
CodeIsZero(code) == code.t = "int" /\ code.n = 0

\* result.get("obj"): None when the key is absent
GetObj(obj) == IF obj.t = "absent" THEN JNull ELSE obj

\* result.get("obj", [])
GetObjOrEmpty(obj) == IF obj.t = "absent" THEN JList(<<>>) ELSE obj

\* Does the body of the try block raise: httpx.post raises, response.json()
\* raises on a body that is not JSON, result.get raises on a JSON array.
BodyRaises(req) ==
    \/ req.outcome # "response"
    \/ req.status = 200 /\ req.body \in {"not_json", "array"}

\* lines 167-177: the try block of validate_token
ValidateTokenBody(req) ==
    IF BodyRaises(req) THEN Raised
    ELSE IF req.status = 200 /\ CodeIsZero(req.code)
    THEN Verdict(TRUE, "", GetObj(req.obj))
    ELSE Verdict(FALSE, "token_validation_failed", JAbsent)

\* Variant: no except clause.
ValidateTokenUnguarded(req) == ValidateTokenBody(req)

\* lines 163-179
ValidateToken(req) ==
    IF ValidateTokenBody(req).kind = "raised"
    THEN Verdict(FALSE, "error_text", JAbsent)
    ELSE ValidateTokenBody(req)

\* lines 123-132 and 141-158: the try block of the two listing calls
ListBody(req) ==
    IF BodyRaises(req) THEN Raised
    ELSE IF req.status = 200 /\ CodeIsZero(req.code)
    THEN Listed(GetObjOrEmpty(req.obj))
    ELSE Listed(JList(<<>>))

\* Variant: the code field is not looked at.
GetListIgnoringCode(req) ==
    IF BodyRaises(req) THEN Listed(JList(<<>>))
    ELSE IF req.status = 200 THEN Listed(GetObjOrEmpty(req.obj))
    ELSE Listed(JList(<<>>))

\* lines 119-135 and 137-161
GetList(req) ==
    IF ListBody(req).kind = "raised" THEN Listed(JList(<<>>)) ELSE ListBody(req)

validate_token ==
    /\ request.op = "validate_token"
    /\ reply = NoReply
    /\ reply' = ValidateToken(request)
    /\ UNCHANGED pipelineVars
    /\ UNCHANGED browseVars
    /\ UNCHANGED <<fetch, request, filesystem, os_name, path_search,
                   token, token_file, client, accepted,
                   logout_btn>>

get_course_list ==
    /\ request.op = "get_course_list"
    /\ reply = NoReply
    /\ reply' = GetList(request)
    /\ UNCHANGED pipelineVars
    /\ UNCHANGED browseVars
    /\ UNCHANGED <<fetch, request, filesystem, os_name, path_search,
                   token, token_file, client, accepted,
                   logout_btn>>

get_task_list ==
    /\ request.op = "get_task_list"
    /\ reply = NoReply
    /\ reply' = GetList(request)
    /\ UNCHANGED pipelineVars
    /\ UNCHANGED browseVars
    /\ UNCHANGED <<fetch, request, filesystem, os_name, path_search,
                   token, token_file, client, accepted,
                   logout_btn>>

\* httpx.post / client.post: the request leaves, and the server and the
\* transport settle what comes of it.
ApiPost(op, x) ==
    /\ request = NoRequest
    /\ request' = Request(op, x)
    /\ UNCHANGED pipelineVars
    /\ UNCHANGED browseVars
    /\ UNCHANGED <<fetch, reply, filesystem, os_name, path_search,
                   token, token_file, client, accepted,
                   logout_btn>>

NextApi ==
    \/ \E op \in ApiOps : \E x \in Exchanges : ApiPost(op, x)
    \/ validate_token
    \/ get_course_list
    \/ get_task_list

SpecApi == Init /\ [][NextApi]_vars

\* ------------------------------------------------------ the application start
\* Nothing is shown, no batch runs and no request is out (lines 592-597).
NoActivity ==
    /\ course_cards = <<>>
    /\ downloading = FALSE
    /\ download_tasks = <<>>
    /\ completed_count = 0
    /\ failed_count = 0
    /\ workers = <<>>
    /\ procs = 0
    /\ afterQueue = <<>>
    /\ dialog = Message("none")
    /\ nAdds = 0
    /\ fetch = NoFetch
    /\ request = NoRequest
    /\ reply = NoReply
    /\ courses = <<>>
    /\ current_page = "courses"
    /\ current_course = NoCourse
    /\ threads = {}

\* The state while BersoDownloaderApp.__init__ runs: no client yet (line 591)
\* and the login box shown.
AtStartup ==
    /\ NoActivity
    /\ client = NoClient
    /\ logout_btn = FALSE

\* ----------------------------------------------- DownloadManager.find_ffmpeg
\* The attribute before DownloadManager.__init__ has run.
Unset == "unset"

\* lines 286-288 and 293-294
WindowsPaths ==
    <<"D:\\project_software\\ffmpeg-8.0.1-essentials_build\\bin\\ffmpeg.exe",
      "D:\\ffmpeg\\bin\\ffmpeg.exe",
      "C:\\ffmpeg\\bin\\ffmpeg.exe">>
BareNames == <<"ffmpeg", "ffmpeg.exe">>

\* lines 281-295
CommonPaths(os) == (IF os = "nt" THEN WindowsPaths ELSE <<>>) \o BareNames

\* str(Path(path)): a leading "./" is dropped; the other paths of the model
\* are in normal form already.
NormalPath(path) ==
    CASE path = "./bin/ffmpeg" -> "bin/ffmpeg"
      [] OTHER -> path

\* Path(path).exists(); a relative path is looked up in the working directory
Exists(path, fs) == NormalPath(path) \in fs

\* The paths that may exist: the configured one, two of the Windows
\* locations, and entries of the working directory named like the tool.
DiskPaths == {"bin/ffmpeg", WindowsPaths[2], WindowsPaths[3], "ffmpeg", "ffmpeg.exe"}

\* Values of settings["ffmpeg_path"]: unset, a path, a path with a typo.
ConfiguredPaths == {"", "./bin/ffmpeg", "./bni/ffmpeg"}

\* What the search command prints when it finds the tool: `where` prints
\* every match, `which` the first.
SearchOutputs(os) ==
    IF os = "nt"
    THEN {<<"C:\\tools\\ffmpeg.exe">>,
          <<"C:\\tools\\ffmpeg.exe", "C:\\old\\ffmpeg.exe">>}
    ELSE {<<"/usr/bin/ffmpeg">>}

\* lines 310-324: the search through where / which
SearchResult(os, search) ==
    IF search.raises THEN NoPath
    ELSE IF search.returncode # 0 THEN NoPath
    ELSE search.lines[1]

\* lines 278-326: the value find_ffmpeg leaves in self.ffmpeg_path
FindFfmpeg(configured, fs, os, search) ==
    LET common_paths == CommonPaths(os)
        hits == {i \in DOMAIN common_paths : Exists(common_paths[i], fs)}
        first == CHOOSE i \in hits : \A j \in hits : i <= j
    IN  IF configured # "" /\ Exists(configured, fs)
        THEN NormalPath(configured)
        ELSE IF hits # {} THEN NormalPath(common_paths[first])
        ELSE SearchResult(os, search)

\* lines 273-276, 1921: DownloadManager.__init__ and check_ffmpeg_status
find_ffmpeg ==
    /\ ffmpeg_path = Unset
    /\ ffmpeg_path' = FindFfmpeg(settings.ffmpeg_path, filesystem, os_name,
                                 path_search)
    /\ UNCHANGED <<settings, settings_file, history, history_file,
                   course_cards, downloading, download_tasks, completed_count,
                   failed_count, workers, procs, afterQueue, dialog, nAdds>>
    /\ UNCHANGED otherVars

\* The application starts on some host with some configured path; the
\* settings have been loaded and the DownloadManager is about to be built.
InitFind ==
    /\ AtStartup
    /\ ffmpeg_path = Unset
    /\ \E configured \in ConfiguredPaths :
          /\ settings = [DefaultSettings EXCEPT !.ffmpeg_path = configured]
          /\ settings_file = [state |-> "valid", items |-> settings]
    /\ history = <<>>
    /\ history_file = AbsentFile
    /\ filesystem \in SUBSET DiskPaths
    /\ os_name \in {"nt", "posix"}
    /\ path_search \in {SearchFails, SearchRaises}
                       \cup {SearchFinds(out) : out \in SearchOutputs(os_name)}
    /\ token = NoToken
    /\ token_file = AbsentTokenFile
    /\ accepted = {}

NextFind == find_ffmpeg

SpecFind == InitFind /\ [][NextFind]_vars

\* ------------------------------------------- ConfigManager: the settings
SettingKeys == {"download_path", "ffmpeg_path", "theme", "max_concurrent"}

\* json.dump / json.load of a dict with str keys and str or int values: the
\* dict read back equals the dict written.
JsonFile(d) == [state |-> "valid", items |-> d]
\* json.dump interrupted: the file is left truncated and does not parse.
BrokenSettingsFile == [state |-> "corrupt", items |-> DefaultSettings]

\* lines 206-219: the file's dict as it is, or the defaults when the file is
\* absent or cannot be read
LoadSettings(file) ==
    IF file.state = "valid" THEN file.items ELSE DefaultSettings

\* Variant: the dict passed takes the place of the settings.
UpdateReplacing(p, s) == s

\* line 223: self.settings.update(settings)
Update(p, s) ==
    [k \in DOMAIN p \cup DOMAIN s |-> IF k \in DOMAIN s THEN s[k] ELSE p[k]]

\* The dicts the application saves: the three fields of the settings page
\* (line 1831), or the theme alone (line 1827).
SavedDicts ==
    {[download_path |-> d, ffmpeg_path |-> f, theme |-> t] :
        d \in {"./downloads", "/x"}, f \in {"", "/y"}, t \in {"light", "dark"}}
    \cup {[theme |-> t] : t \in {"light", "dark"}}

\* settings.json as the application may find it: absent, unreadable, written
\* by itself, or holding a JSON object with some of the keys or none.
FoundSettingsFiles ==
    {[state |-> "absent", items |-> DefaultSettings], BrokenSettingsFile,
     JsonFile(DefaultSettings),
     JsonFile([theme |-> "dark"]),
     JsonFile([download_path |-> "/x", ffmpeg_path |-> "/y"]),
     JsonFile([k \in {} |-> ""])}

\* line 202, at every start of the application
load_settings ==
    /\ settings' = LoadSettings(settings_file)
    /\ UNCHANGED <<ffmpeg_path, settings_file, history, history_file,
                   course_cards, downloading, download_tasks, completed_count,
                   failed_count, workers, procs, afterQueue, dialog, nAdds>>
    /\ UNCHANGED otherVars

\* lines 221-225: the dict in memory is updated before the file is opened
ConfigManager_save_settings(s, outcome) ==
    /\ settings' = Update(settings, s)
    /\ settings_file' = CASE outcome = "ok" -> JsonFile(Update(settings, s))
                          [] outcome = "open_error" -> settings_file
                          [] OTHER -> BrokenSettingsFile
    /\ UNCHANGED <<ffmpeg_path, history, history_file,
                   course_cards, downloading, download_tasks, completed_count,
                   failed_count, workers, procs, afterQueue, dialog, nAdds>>
    /\ UNCHANGED otherVars

\* ConfigManager.__init__ has loaded the settings from the file it found.
InitSettings ==
    /\ AtStartup
    /\ ffmpeg_path = Unset
    /\ settings_file \in FoundSettingsFiles
    /\ settings = LoadSettings(settings_file)
    /\ history = <<>>
    /\ history_file = AbsentFile
    /\ filesystem = {}
    /\ os_name = "nt"
    /\ path_search = SearchFails
    /\ token = NoToken
    /\ token_file = AbsentTokenFile
    /\ accepted = {}

NextSettings ==
    \/ load_settings
    \/ \E s \in SavedDicts : \E outcome \in WriteOutcomes :
          ConfigManager_save_settings(s, outcome)

SpecSettings == InitSettings /\ [][NextSettings]_vars

\* ------------------------------------------------ the session and its store
Tokens == {"T1", "T2"}

\* The profile stored with a token.
Profile == JDict(<<"name", "myOrg">>)

\* What the token box holds when the login button is pressed: nothing, the
\* placeholder, text without a token, an HTTP response with an access_token
\* field, or a bare token string.
Content(form, t) == [form |-> form, token |-> t]
Contents ==
    {Content(form, "") : form \in {"empty", "placeholder", "garbage"}}
    \cup {Content(form, t) : form \in {"response", "raw"}, t \in Tokens}

\* lines 815-826: the token found in the text, or None ("")
parse_token_from_response(content) ==
    IF content.form \in {"response", "raw"} THEN content.token ELSE ""

\* lines 227-235
LoadToken(file) == IF file.state = "valid" THEN file.data ELSE NoToken

\* lines 237-241: memory first, then the file
save_token(token_data, outcome) ==
    /\ token' = token_data
    /\ token_file' = CASE outcome = "ok" -> TokenFile(token_data)
                       [] outcome = "open_error" -> token_file
                       [] OTHER -> BrokenTokenFile

\* Variant: the memory is emptied, token.json is left where it is.
clear_token_in_memory ==
    /\ token' = NoToken
    /\ UNCHANGED token_file

\* lines 243-247
clear_token ==
    /\ token' = NoToken
    /\ token_file' = AbsentTokenFile

\* line 848: result.get("user_info", {})
UserInfoOf(result) == IF result.value.t = "absent" THEN JDict(<<>>) ELSE result.value

\* lines 849-850: user_info.get(...) works on a dict and raises on anything else
ProfileReadable(user_info) == user_info.t = "dict"

\* Variant: the result of the validation is not looked at.
LoginAcceptedAlways(result) == TRUE

\* line 847
LoginAccepted(result) == result.success

\* What validate_token answers for the token when the server and the
\* transport do x.
Probe(x) == ValidateToken(Request("validate_token", x))

\* The process starts: ConfigManager.__init__ loads the token (line 203),
\* self.client = None (line 591) and try_auto_login (lines 1845-1856) presents
\* the stored token, if there is one.
Launch(x) ==
    LET token_data == LoadToken(token_file)
        result == Probe(x)
    IN
    /\ client = Unset
    /\ token' = token_data
    /\ IF token_data.access_token # ""
       THEN /\ client' = token_data.access_token
            /\ accepted' = IF result.success
                           THEN accepted \cup {token_data.access_token}
                           ELSE accepted
            /\ logout_btn' = result.success
       ELSE /\ client' = NoClient
            /\ UNCHANGED <<accepted, logout_btn>>
    /\ UNCHANGED pipelineVars
    /\ UNCHANGED browseVars
    /\ UNCHANGED <<fetch, request, reply, filesystem, os_name, path_search,
                   token_file>>

\* The thread refresh_courses starts (lines 1908-1917), about to run.
CourseThread == [kind |-> "courses", course |-> NoCourse, pc |-> "start"]

\* lines 1896-1917 of refresh_courses, reached with a client: on the course
\* page the page is drawn again and the listing thread is started.
StartCourseListing ==
    /\ threads' = IF current_page = "courses" THEN threads \cup {CourseThread}
                  ELSE threads
    /\ UNCHANGED <<courses, current_page, current_course>>

\* lines 828-861
login_with_token(content, x, outcome) ==
    LET t == parse_token_from_response(content)
        result == Probe(x)
        user_info == UserInfoOf(result)
    IN
    /\ client # Unset
    /\ ~logout_btn
    /\ dialog.kind = "none"
    /\ IF content.form \in {"empty", "placeholder"}
       THEN /\ dialog' = Message("enter_token_first")
            /\ UNCHANGED <<token, token_file, client, accepted, logout_btn>>
            /\ UNCHANGED browseVars
       ELSE IF t = ""
       THEN /\ dialog' = Message("token_unparsable")
            /\ UNCHANGED <<token, token_file, client, accepted, logout_btn>>
            /\ UNCHANGED browseVars
       ELSE /\ client' = t
            /\ accepted' = IF result.success THEN accepted \cup {t} ELSE accepted
            /\ IF LoginAccepted(result)
               THEN IF ~ProfileReadable(user_info)
                    THEN \* line 849 raises; the handler ends there
                         /\ UNCHANGED <<token, token_file, logout_btn, dialog>>
                         /\ UNCHANGED browseVars
                    ELSE /\ save_token(TokenData(t, user_info), outcome)
                         /\ IF outcome = "ok"
                            THEN /\ logout_btn' = TRUE
                                 /\ StartCourseListing
                                 /\ dialog' = Message("login_succeeded")
                            ELSE \* line 240 or 241 raises; the handler ends there
                                 /\ UNCHANGED <<logout_btn, dialog>>
                                 /\ UNCHANGED browseVars
               ELSE /\ dialog' = Message("login_failed")
                    /\ UNCHANGED <<token, token_file, logout_btn>>
                    /\ UNCHANGED browseVars
    /\ UNCHANGED <<ffmpeg_path, settings, settings_file, history, history_file,
                   course_cards, downloading, download_tasks, completed_count,
                   failed_count, workers, procs, afterQueue, nAdds>>
    /\ UNCHANGED <<fetch, request, reply, filesystem, os_name, path_search>>

\* lines 1877-1887
logout ==
    /\ client # Unset
    /\ logout_btn
    /\ dialog.kind = "none"
    /\ clear_token
    /\ client' = NoClient
    /\ courses' = <<>>
    /\ logout_btn' = FALSE
    /\ dialog' = Message("logged_out")
    /\ UNCHANGED <<current_page, current_course, threads>>
    /\ UNCHANGED <<ffmpeg_path, settings, settings_file, history, history_file,
                   course_cards, downloading, download_tasks, completed_count,
                   failed_count, workers, procs, afterQueue, nAdds>>
    /\ UNCHANGED <<fetch, request, reply, filesystem, os_name, path_search,
                   accepted>>

\* The window is closed and the process ends: what was in memory is gone,
\* the files stay.
Quit ==
    /\ client # Unset
    /\ client' = Unset
    /\ token' = NoToken
    /\ logout_btn' = FALSE
    /\ dialog' = Message("none")
    /\ courses' = <<>>
    /\ current_page' = "courses"
    /\ current_course' = NoCourse
    /\ threads' = {}
    /\ UNCHANGED <<ffmpeg_path, settings, settings_file, history, history_file,
                   course_cards, downloading, download_tasks, completed_count,
                   failed_count, workers, procs, afterQueue, nAdds>>
    /\ UNCHANGED <<fetch, request, reply, filesystem, os_name, path_search,
                   token_file, accepted>>

\* Before the process starts: token.json is absent, unreadable, or holds a
\* token an earlier run saved after validating it.
InitSession ==
    /\ NoActivity
    /\ client = Unset
    /\ logout_btn = FALSE
    /\ ffmpeg_path = Unset
    /\ settings = DefaultSettings
    /\ settings_file = [state |-> "absent", items |-> DefaultSettings]
    /\ history = <<>>
    /\ history_file = AbsentFile
    /\ filesystem = {}
    /\ os_name = "nt"
    /\ path_search = SearchFails
    /\ token = NoToken
    /\ \/ /\ token_file \in {AbsentTokenFile, BrokenTokenFile}
          /\ accepted = {}
       \/ /\ token_file = TokenFile(TokenData("T1", Profile))
          /\ accepted = {"T1"}

NextSession ==
    \/ \E x \in Exchanges : Launch(x)
    \/ \E content \in Contents : \E x \in Exchanges : \E outcome \in WriteOutcomes :
          login_with_token(content, x, outcome)
    \/ logout
    \/ DismissDialog
    \/ Quit

SpecSession == InitSession /\ [][NextSession]_vars

\* ------------------------------------------------------------------ logout
\* logout (lines 1877-1887) called while nobody is logged in: the method is
\* called again after it has run, or before any login.
logout_again ==
    /\ client # Unset
    /\ ~logout_btn
    /\ dialog.kind = "none"
    /\ clear_token
    /\ client' = NoClient
    /\ courses' = <<>>
    /\ logout_btn' = FALSE
    /\ dialog' = Message("logged_out")
    /\ UNCHANGED <<current_page, current_course, threads>>
    /\ UNCHANGED <<ffmpeg_path, settings, settings_file, history, history_file,
                   course_cards, downloading, download_tasks, completed_count,
                   failed_count, workers, procs, afterQueue, nAdds>>
    /\ UNCHANGED <<fetch, request, reply, filesystem, os_name, path_search,
                   accepted>>

NextLogout ==
    \/ NextSession
    \/ logout_again

SpecLogout == InitSession /\ [][NextLogout]_vars

\* -------------------------------------------------------------- file names
\* A name is the sequence of its characters.
\* line 407: the characters re.sub(r'[<>:"/\\|?*]', '', name) removes
Forbidden == {"<", ">", ":", "\"", "/", "\\", "|", "?", "*"}

\* what str.strip() takes off both ends
Whitespace == {" ", "\t", "\n", "\r"}

\* line 409: name[:50]
FilenameCap == 50

RemoveForbidden(name) == SelectSeq(name, LAMBDA c : c \notin Forbidden)

RECURSIVE LStrip(_)
LStrip(s) ==
    IF s # <<>> /\ Head(s) \in Whitespace THEN LStrip(Tail(s)) ELSE s

RECURSIVE RStrip(_)
RStrip(s) ==
    IF s # <<>> /\ s[Len(s)] \in Whitespace
    THEN RStrip(SubSeq(s, 1, Len(s) - 1))
    ELSE s

Strip(s) == RStrip(LStrip(s))

\* lines 405-409
safe_filename(name) ==
    LET kept == Strip(RemoveForbidden(name)) IN
    SubSeq(kept, 1, IF Len(kept) < FilenameCap THEN Len(kept) ELSE FilenameCap)

\* ---------------------------------------------- course and chapter pages
\* Callbacks of listing threads queued and not yet run by the Tk loop.
MaxPending == 2

\* A course of the listing: what create_course_item and load_chapters read.
Course(title) == [title |-> title, originId |-> title, dirId |-> title]

\* What the server lists for the account.
CourseList == <<Course(<<"A">>), Course(<<"B">>)>>

\* A chapter as get_task_list returns it.
Task(name) == [name |-> name, recordFiles |-> Located]

\* What the server lists for a course: a chapter named after it.
TaskList(course) == <<Task(course.title \o <<"1">>)>>

\* get_course_list and get_task_list return the list of the reply, or []
\* (lines 130-135, 156-161).
ListingReplies(list) == {list, <<>>}

\* The thread load_chapters starts (lines 1379-1390), about to run.
ChapterThread(course) == [kind |-> "chapters", course |-> course, pc |-> "start"]

\* self.root.after(0, self.display_courses)   (line 1914)
DisplayCourses == [ev |-> "display_courses", tasks |-> <<>>]
\* self.root.after(0, lambda: self.display_chapters(tasks))   (line 1387)
DisplayChapters(tasks) == [ev |-> "display_chapters", tasks |-> tasks]

\* lines 1409-1410 and 492: default_path / safe_filename(title) /
\* f"{safe_filename(task_name)}.mp4"
ChapterPath(course, task) ==
    <<"./downloads", safe_filename(course.title),
      safe_filename(task.name) \o <<".mp4">>>>

\* The card display_chapters builds for a chapter (lines 1412-1422).
ChapterCard(course, task) ==
    [task_data |-> task, path_var |-> ChapterPath(course, task)]

\* lines 1891-1917, the handler of the refresh button of the course page
refresh_courses ==
    /\ dialog.kind = "none"
    /\ current_page = "courses"
    /\ IF client = NoClient
       THEN /\ dialog' = Message("login_first")
            /\ UNCHANGED browseVars
       ELSE /\ StartCourseListing
            /\ UNCHANGED dialog
    /\ UNCHANGED <<ffmpeg_path, settings, settings_file, history, history_file,
                   course_cards, downloading, download_tasks, completed_count,
                   failed_count, workers, procs, afterQueue, nAdds>>
    /\ UNCHANGED <<fetch, request, reply, filesystem, os_name, path_search,
                   token, token_file, client, accepted, logout_btn>>

\* lines 921-1043, reached from the chapter page
show_courses ==
    /\ dialog.kind = "none"
    /\ current_page = "chapters"
    /\ current_page' = "courses"
    /\ UNCHANGED <<courses, current_course, threads>>
    /\ UNCHANGED pipelineVars
    /\ UNCHANGED <<fetch, request, reply, filesystem, os_name, path_search,
                   token, token_file, client, accepted, logout_btn>>

\* lines 1198-1390: the user opens a course of the list drawn (no
\* display_courses is pending, so the items are those of self.courses);
\* show_chapters ends with load_chapters, which starts the listing thread.
show_chapters(course) ==
    /\ dialog.kind = "none"
    /\ current_page = "courses"
    /\ \E k \in DOMAIN courses : courses[k] = course
    /\ \A k \in DOMAIN afterQueue : afterQueue[k].ev # "display_courses"
    /\ current_course' = course
    /\ current_page' = "chapters"
    /\ threads' = threads \cup {ChapterThread(course)}
    /\ UNCHANGED courses
    /\ UNCHANGED pipelineVars
    /\ UNCHANGED <<fetch, request, reply, filesystem, os_name, path_search,
                   token, token_file, client, accepted, logout_btn>>

\* lines 1911 and 1382: the thread evaluates self.client.get_..._list(...);
\* with self.client None the attribute access raises and the thread ends.
ThreadCall(t) ==
    /\ t \in threads
    /\ t.pc = "start"
    /\ threads' = IF client = NoClient
                  THEN threads \ {t}
                  ELSE (threads \ {t}) \cup {[t EXCEPT !.pc = "waiting"]}
    /\ UNCHANGED <<courses, current_page, current_course>>
    /\ UNCHANGED pipelineVars
    /\ UNCHANGED <<fetch, request, reply, filesystem, os_name, path_search,
                   token, token_file, client, accepted, logout_btn>>

\* lines 1911-1914 and 1382-1387: the call returns list; the course thread
\* assigns self.courses, either thread queues its display callback.
ThreadReturn(t, list) ==
    /\ t \in threads
    /\ t.pc = "waiting"
    /\ Len(afterQueue) < MaxPending
    /\ threads' = threads \ {t}
    /\ IF t.kind = "courses"
       THEN /\ courses' = list
            /\ afterQueue' = Append(afterQueue, DisplayCourses)
       ELSE /\ UNCHANGED courses
            /\ afterQueue' = Append(afterQueue, DisplayChapters(list))
    /\ UNCHANGED <<current_page, current_course>>
    /\ UNCHANGED <<ffmpeg_path, settings, settings_file, history, history_file,
                   course_cards, downloading, download_tasks, completed_count,
                   failed_count, workers, procs, dialog, nAdds>>
    /\ UNCHANGED <<fetch, request, reply, filesystem, os_name, path_search,
                   token, token_file, client, accepted, logout_btn>>

\* The Tk loop runs display_courses (lines 1081-1100): the items of
\* self.courses are drawn.
display_courses ==
    /\ afterQueue # <<>>
    /\ Head(afterQueue).ev = "display_courses"
    /\ afterQueue' = Tail(afterQueue)
    /\ UNCHANGED <<ffmpeg_path, settings, settings_file, history, history_file,
                   course_cards, downloading, download_tasks, completed_count,
                   failed_count, workers, procs, dialog, nAdds>>
    /\ UNCHANGED otherVars

\* The Tk loop runs display_chapters(tasks) (lines 1392-1422).  On another
\* page chapter_scroll is gone and the first widget built on it raises, after
\* line 1397 has emptied course_cards.
display_chapters ==
    /\ afterQueue # <<>>
    /\ Head(afterQueue).ev = "display_chapters"
    /\ afterQueue' = Tail(afterQueue)
    /\ LET tasks == Head(afterQueue).tasks IN
       course_cards' = IF current_page = "chapters"
                       THEN [i \in DOMAIN tasks |-> ChapterCard(current_course, tasks[i])]
                       ELSE <<>>
    /\ UNCHANGED <<ffmpeg_path, settings, settings_file, history, history_file,
                   downloading, download_tasks, completed_count,
                   failed_count, workers, procs, dialog, nAdds>>
    /\ UNCHANGED otherVars

\* The thread's answer for what it asked.
ThreadAnswers(t) ==
    IF t.kind = "courses" THEN ListingReplies(CourseList)
    ELSE ListingReplies(TaskList(t.course))

\* The application has started without a stored token.
InitBrowse ==
    /\ AtStartup
    /\ ffmpeg_path = NoPath
    /\ settings = DefaultSettings
    /\ settings_file = [state |-> "absent", items |-> DefaultSettings]
    /\ history = <<>>
    /\ history_file = AbsentFile
    /\ filesystem = {}
    /\ os_name = "nt"
    /\ path_search = SearchFails
    /\ token = NoToken
    /\ token_file = AbsentTokenFile
    /\ accepted = {}

\* The server accepts the token presented, or turns it down.
BrowseExchanges ==
    {Exchange("response", 200, "object", JInt(0), Profile),
     Exchange("response", 401, "object", JAbsent, JAbsent)}

NextBrowse ==
    \/ \E x \in BrowseExchanges : login_with_token(Content("raw", "T1"), x, "ok")
    \/ logout
    \/ DismissDialog
    \/ refresh_courses
    \/ show_courses
    \/ \E k \in DOMAIN courses : show_chapters(courses[k])
    \/ \E t \in threads : ThreadCall(t)
    \/ \E t \in threads : \E list \in ThreadAnswers(t) : ThreadReturn(t, list)
    \/ display_courses
    \/ display_chapters

SpecBrowse == InitBrowse /\ [][NextBrowse]_vars

\* ------------------------------------------- the tool path after the start
\* The settings page is used once the application has been built.
SaveToolPath(path) ==
    /\ ffmpeg_path # Unset
    /\ save_settings(path)

NextTool ==
    \/ find_ffmpeg
    \/ \E path \in PathInputs : SaveToolPath(path)
    \/ DismissDialog

SpecTool == InitFind /\ [][NextTool]_vars

\* ------------------------------------------- a listing with chapter names
\* A name longer than the cut of safe_filename, ending in c.
LongName(c) == [i \in 1..FilenameCap |-> "x"] \o <<c>>

\* Names the chapters of a listing may have.
ChapterNames ==
    {<<"C", "h", "1">>, <<"C", "h", "2">>, <<"C", "h", "?", "1">>,
     <<" ", "C", "h", "1">>, LongName("a"), LongName("b")}

\* The server lists the two courses, and for a course two chapters with
\* different names.
NamedAnswers(t) ==
    IF t.kind = "courses" THEN {CourseList}
    ELSE {<<Task(pair[1]), Task(pair[2])>> :
             pair \in {p \in ChapterNames \X ChapterNames : p[1] # p[2]}}

NextNames ==
    \/ login_with_token(Content("raw", "T1"),
                        Exchange("response", 200, "object", JInt(0), Profile), "ok")
    \/ DismissDialog
    \/ \E t \in threads : ThreadCall(t)
    \/ \E t \in threads : \E list \in NamedAnswers(t) : ThreadReturn(t, list)
    \/ display_courses
    \/ \E k \in DOMAIN courses : show_chapters(courses[k])
    \/ display_chapters

SpecNames == InitBrowse /\ [][NextNames]_vars

\* ==================================================================== claims
Last(s) == s[Len(s)]
Min(a, b) == IF a <= b THEN a ELSE b

\* The worker of the batch submitted last.
Newest == Len(workers)

\* A download_video call of worker w has returned and no other has begun.
FetchReturned(w) ==
    /\ workers[w].pc = "loop"
    /\ workers[w].calls # <<>>
    /\ Last(workers[w].calls) = workers[w].idx

Completions(log) == {k \in DOMAIN log : log[k].cb = "completion"}
ProgressCalls(log) == {k \in DOMAIN log : log[k].cb = "progress"}

\* C1: between two jobs and at the end of a batch, completed_count +
\* failed_count equals the number of jobs whose processing has ended and is at
\* most the batch total; the result reported for a batch that was not
\* cancelled has succeeded + failed = total.
C1_CountersMatchJobs ==
    /\ Newest > 0 /\ workers[Newest].pc \in {"loop", "ended"} =>
          /\ completed_count + failed_count = Len(workers[Newest].ended)
          /\ completed_count + failed_count <= Len(download_tasks)
    /\ dialog.kind = "batch_result" =>
          dialog.succeeded + dialog.failed = dialog.total

\* C2: a step that starts a job whose chapter has no record files, or whose
\* first record file has neither location field, adds one to failed_count,
\* calls download_video for no job, adds no history entry, launches nothing
\* and leaves the worker at the head of the loop with that job ended.
C2_NothingToFetch(task) ==
    \/ task.task_data.recordFiles = <<>>
    \/ /\ task.task_data.recordFiles[1].location = ""
       /\ task.task_data.recordFiles[1].locationPath = ""

C2_StartsFaultyJob(w) ==
    /\ w \in DOMAIN workers'
    /\ Len(workers'[w].started) = Len(workers[w].started) + 1
    /\ C2_NothingToFetch(workers'[w].tasks[Last(workers'[w].started)])

C2_DataFaultFailsJob ==
    [][\A w \in DOMAIN workers :
          C2_StartsFaultyJob(w) =>
             LET i == Last(workers'[w].started) IN
             /\ failed_count' = failed_count + 1
             /\ completed_count' = completed_count
             /\ workers'[w].calls = workers[w].calls
             /\ workers'[w].added = workers[w].added
             /\ history' = history
             /\ history_file' = history_file
             /\ procs' = procs
             /\ workers'[w].pc = "loop"
             /\ workers'[w].idx = i
             /\ workers'[w].ended = Append(workers[w].ended, i)
             /\ Last(workers'[w].marks).job = i
             /\ Last(workers'[w].marks).status \in {"no_video", "no_address"}]_vars

\* A batch of a chapter without record files and a chapter without location
\* has ended: two failures, no fetch, no entry.
C2_Witness ==
    \E w \in DOMAIN workers :
       /\ workers[w].pc = "ended"
       /\ workers[w].marks = <<Mark(1, "no_video"), Mark(2, "no_address")>>
       /\ workers[w].calls = <<>>
       /\ failed_count = 2
       /\ completed_count = 0
       /\ history = <<>>

\* C3: start_batch_download with a non-empty selection and no executable
\* starts no worker and leaves downloading, download_tasks, both counters and
\* every worker's record as they were.
C3_NoToolRejectsBatch ==
    [][\A checked \in CheckedSets :
          (checked # {} /\ ~PathTruthy(ffmpeg_path) /\ start_batch_download(checked)) =>
             /\ Len(workers') = Len(workers)
             /\ UNCHANGED <<downloading, download_tasks, completed_count,
                            failed_count, workers, procs, afterQueue>>]_vars

\* The batch was rejected after the tool path had been saved empty.
C3_Witness ==
    /\ dialog.kind = "ffmpeg_not_detected"
    /\ ffmpeg_path = ""
    /\ ~downloading
    /\ workers = <<>>

\* C4: every worker starts the jobs of its batch in list order, starts a job
\* only when the one before has ended, and at most one external process is
\* running.
C4_SequentialInOrder ==
    /\ procs <= 1
    /\ Cardinality({w \in DOMAIN workers : workers[w].pc = "read"}) <= 1
    /\ \A w \in DOMAIN workers :
          /\ \A k \in DOMAIN workers[w].started : workers[w].started[k] = k
          /\ \A k \in DOMAIN workers[w].ended : workers[w].ended[k] = k
          /\ Len(workers[w].ended) <= Len(workers[w].started)
          /\ Len(workers[w].started) <= Len(workers[w].ended) + 1
          /\ workers[w].pc = "loop" => Len(workers[w].started) = Len(workers[w].ended)

\* The second fetch of a batch is in flight after the first has ended.
C4_Witness ==
    \E w \in DOMAIN workers :
       /\ workers[w].pc = "read"
       /\ workers[w].calls = <<1, 2>>
       /\ workers[w].ended = <<1>>
       /\ procs = 1

\* C5: the callbacks of one download_video call are progress calls followed by
\* exactly one completion call: never two completions, none before a progress
\* call, and one once the call has returned.
C5_OneCompletionLast ==
    \A w \in DOMAIN workers :
       LET log == workers[w].cbLog IN
       /\ Cardinality(Completions(log)) <= 1
       /\ Completions(log) # {} => Completions(log) = {Len(log)}
       /\ FetchReturned(w) => Cardinality(Completions(log)) = 1

\* C6: at the end of a batch the entries it added are as many as
\* completed_count, they are the newest entries of the ledger, each carries
\* its job's name, destination path and size, and a job has an entry exactly
\* when the status it ended with is success.
C6_FinalStatus(w, i) ==
    LET ks == {k \in DOMAIN workers[w].marks : workers[w].marks[k].job = i}
        k == CHOOSE j \in ks : \A l \in ks : l <= j
    IN  workers[w].marks[k].status

C6_EntriesOf(w, i) ==
    {k \in DOMAIN workers[w].added :
        /\ workers[w].added[k].title = workers[w].tasks[i].task_data.name
        /\ workers[w].added[k].path = workers[w].tasks[i].save_path
        /\ workers[w].added[k].size \in Sizes}

C6_EntryIffSucceeded ==
    Newest > 0 /\ workers[Newest].pc = "ended" =>
       LET me == workers[Newest] IN
       /\ Len(me.added) = completed_count
       /\ Len(history) >= Len(me.added)
       /\ \A k \in DOMAIN me.added : history[Len(me.added) - k + 1] = me.added[k]
       /\ \A i \in DOMAIN me.tasks :
             IF i \in {me.ended[k] : k \in DOMAIN me.ended}
             THEN (C6_EntriesOf(Newest, i) # {}) <=> (C6_FinalStatus(Newest, i) = "succeeded")
             ELSE C6_EntriesOf(Newest, i) = {}


\* C7: a job is started only in a step that finds the batch flag set; a worker
\* at the head of its loop with the flag cleared does nothing but end its loop
\* and queue batch_download_finished, both counters staying as the jobs
\* before left them; a worker inside download_video does not end before the
\* completion callback has returned; and the result reported has total equal
\* to the number of jobs submitted.
C7_Moved(w) == w \in DOMAIN workers' /\ workers'[w] # workers[w]

C7_FlagCheckedBeforeEachJob ==
    [][/\ \A w \in DOMAIN workers :
             /\ (C7_Moved(w) /\ Len(workers'[w].started) > Len(workers[w].started))
                   => downloading
             /\ (C7_Moved(w) /\ workers[w].pc = "loop" /\ ~downloading) =>
                   /\ workers'[w].pc = "ended"
                   /\ workers'[w].started = workers[w].started
                   /\ workers'[w].ended = workers[w].ended
                   /\ afterQueue' = Append(afterQueue, FinishedEvent)
                   /\ UNCHANGED <<completed_count, failed_count, history, procs>>
             /\ (C7_Moved(w) /\ workers[w].pc \in {"download_video", "launch", "read", "callback"})
                   => workers'[w].pc \in {"launch", "read", "callback", "loop"}
       /\ (dialog' # dialog /\ dialog'.kind = "batch_result") =>
             /\ dialog'.total = Len(download_tasks)
             /\ dialog'.succeeded = completed_count
             /\ dialog'.failed = failed_count
             /\ ~downloading']_vars

\* A batch of two jobs was cancelled after its first job: one job processed,
\* the second never started, and the result reports total = 2.
C7_Witness ==
    \E w \in DOMAIN workers :
       /\ workers[w].pc = "ended"
       /\ workers[w].started = <<1>>
       /\ workers[w].ended = <<1>>
       /\ Len(workers[w].tasks) = 2
       /\ dialog.kind = "batch_result"
       /\ dialog.total = 2
       /\ dialog.succeeded + dialog.failed = 1
       /\ ~downloading

\* C8: after n add_history calls on an empty ledger the list in memory and the
\* list in the history file are the min(n, 100) entries added last, newest
\* first; after 101 calls there are 100, from the 101st down to the 2nd.
C8_Expected(n) == [i \in 1..Min(n, 100) |-> Item(n - i + 1)]

C8_LedgerKeepsNewest ==
    /\ Len(history) = Min(nAdds, 100)
    /\ \A i \in 1..Len(history) : history[i] = C8_Expected(nAdds)[i]
    /\ nAdds >= 1 => history_file = [state |-> "valid", items |-> history]
    /\ nAdds = 101 =>
          /\ Len(history) = 100
          /\ history[1] = Item(101)
          /\ history[100] = Item(2)
          /\ \A i \in 1..100 : history[i] # Item(1)

C8_Witness ==
    /\ nAdds = 101
    /\ Len(history) = 100
    /\ history[1] = Item(101)
    /\ history_file.items[100] = Item(2)

\* C9: once the duration D of a call is positive, reading a line that carries
\* a time marker followed by HH:MM:SS makes one progress callback with value
\* (seconds / D) x 100.
C9_TimeMarked(line) ==
    \E i \in 1..Len(line) :
       /\ line[i].k = "time="
       /\ \/ i + 1 <= Len(line) /\ line[i + 1].k = "hms"
          \/ i + 2 <= Len(line) /\ line[i + 1].k = " " /\ line[i + 2].k = "hms"

C9_Seconds(line) ==
    LET i == CHOOSE j \in 1..Len(line) : line[j].k = "hms" IN
    line[i].h * 3600 + line[i].m * 60 + line[i].s

C9_TimeLineReportsProgress ==
    [][\A w \in DOMAIN workers : \A line \in Lines :
          (/\ workers[w].duration > 0
           /\ C9_TimeMarked(line)
           /\ DvReadLine(w, line)) =>
             workers'[w].cbLog = Append(workers[w].cbLog,
                 [cb |-> "progress",
                  value |-> [num |-> C9_Seconds(line) * 100, den |-> workers[w].duration],
                  success |-> FALSE, message |-> ""])]_vars

\* C10: a progress callback has been made in a download_video call only if a
\* line with a duration marker has been read in that call.
C10_NoProgressBeforeDuration ==
    \A w \in DOMAIN workers :
       ProgressCalls(workers[w].cbLog) # {} => workers[w].durationSeen

\* Time lines came first: lines with a time marker have been read, none with
\* a duration marker, and no callback has been made.
C10_Witness ==
    \E w \in DOMAIN workers :
       /\ workers[w].pc = "read"
       /\ workers[w].nLines = MaxLines
       /\ workers[w].timeSeen
       /\ ~workers[w].durationSeen
       /\ workers[w].cbLog = <<>>

\* The callback invocations of the standalone call, by kind.
FetchCompletions == [k \in Completions(fetch.log) |-> fetch.log[k]]
FetchEnded == fetch.pc \in {"returned", "raised"}
FetchExited == fetch.returncode # -1

\* C11: once the external process has exited and the call has ended, the call
\* returned True and the completion callback was called exactly once, with
\* True and the size text, if the exit code was 0 and the file existed;
\* otherwise the call returned False and every completion call carried False.
C11_SuccessIffExitOkAndFile ==
    (FetchEnded /\ FetchExited) =>
       IF fetch.returncode = 0 /\ fetch.exists
       THEN /\ fetch.ret = "True"
            /\ Cardinality(Completions(fetch.log)) = 1
            /\ Last(fetch.log) = CompletionCall(TRUE, SizeText(fetch.bytes))
       ELSE /\ fetch.ret = "False"
            /\ \A k \in Completions(fetch.log) : ~fetch.log[k].success

C15_NeverPropagates ==
    /\ fetch.pc # "raised"
    /\ (fetch.pc = "returned" /\ fetch.faults > 0) =>
          /\ Last(fetch.log) = CompletionCall(FALSE, "error_text")
          /\ fetch.ret = "False"

\* The exchange whose code and status mean success.
ApiAccepted(req) ==
    /\ req.outcome = "response"
    /\ req.status = 200
    /\ req.body = "object"
    /\ req.code = JInt(0)

\* C12: whatever comes of the probe request, validate_token hands back a
\* value, never an exception; its success field is True exactly when a
\* response arrived with status 200 and a body whose code is 0.
C12_ValidateNeverRaises ==
    (request.op = "validate_token" /\ reply # NoReply) =>
       /\ reply.kind = "value"
       /\ reply.success <=> ApiAccepted(request)

\* validate_token has answered a timed-out request with a failure value.
C12_Witness ==
    /\ request.op = "validate_token"
    /\ request.outcome = "timeout"
    /\ reply = Verdict(FALSE, "error_text", JAbsent)

\* C13: get_course_list and get_task_list hand back the obj payload of the
\* response (the empty list when the body has none) when a response arrived
\* with status 200 and code 0, and the empty list for every other exchange;
\* they never raise.
C13_ListOrEmpty ==
    (request.op \in {"get_course_list", "get_task_list"} /\ reply # NoReply) =>
       /\ reply.kind = "value"
       /\ reply.value = IF ApiAccepted(request) /\ request.obj # JAbsent
                        THEN request.obj
                        ELSE JList(<<>>)

\* A listing call answered a 200 response that carries a payload and the code
\* 1 with the empty list.
C13_Witness ==
    /\ request.op = "get_task_list"
    /\ request.status = 200
    /\ request.code = JInt(1)
    /\ request.obj = JList(<<"c1", "c2">>)
    /\ reply = Listed(JList(<<>>))

\* The well-known installation paths of the host: the three Windows
\* locations; none on another system.
C16_InstallPaths(os) == IF os = "nt" THEN WindowsPaths ELSE <<>>

\* The first match in the order configured path, installation paths, search.
C16_Resolved ==
    LET configured == settings.ffmpeg_path
        known == C16_InstallPaths(os_name)
        hits == {i \in DOMAIN known : known[i] \in filesystem}
    IN  IF configured # "" /\ NormalPath(configured) \in filesystem
        THEN NormalPath(configured)
        ELSE IF hits # {} THEN known[CHOOSE i \in hits : \A j \in hits : i <= j]
        ELSE IF ~path_search.raises /\ path_search.returncode = 0
        THEN path_search.lines[1]
        ELSE NoPath

\* C16: after find_ffmpeg, ffmpeg_path is the configured path if it exists,
\* else the first existing installation path of the host, else what the search
\* command found, else None; the bare name is resolved by the search command
\* only.
C16_FirstMatchInOrder ==
    ffmpeg_path # Unset => ffmpeg_path = C16_Resolved

\* C17: the settings in force hold the four keys download_path, ffmpeg_path,
\* theme and max_concurrent, whatever file load_settings found.
C17_CompleteAfterLoad == SettingKeys \subseteq DOMAIN settings

\* C18: a save_settings(s) that returns leaves a file from which load_settings
\* reads s's value for every key of s and, for every other key, the value of
\* the settings in force before the save.
C18_RoundTrip ==
    [][\A s \in SavedDicts :
          ConfigManager_save_settings(s, "ok") =>
             LET p == settings
                 loaded == LoadSettings(settings_file')
             IN  /\ DOMAIN loaded = DOMAIN p \cup DOMAIN s
                 /\ \A k \in DOMAIN s : loaded[k] = s[k]
                 /\ \A k \in DOMAIN p \ DOMAIN s : loaded[k] = p[k]]_vars

\* The three values of the settings page were saved over the defaults and
\* read back, with max_concurrent as it was.
C18_Witness ==
    /\ settings_file = JsonFile([download_path |-> "/x", ffmpeg_path |-> "/y",
                                 theme |-> "dark", max_concurrent |-> 1])
    /\ settings = LoadSettings(settings_file)

\* The server answered the validation request and did not accept the token.
Rejected(x) == x.outcome = "response" /\ ~ApiAccepted(x)

\* No token in memory, none that the next start would load, no client.
SessionDestroyed ==
    /\ token = NoToken
    /\ LoadToken(token_file) = NoToken
    /\ client = NoClient

\* C19: a start whose auto-login presents the stored token, and a manual login
\* with a token parsed from the box, end with the session destroyed when the
\* validation request is rejected: no token in memory or on disk and no
\* client.
C19_RejectionDestroysSession ==
    [][\A x \in Exchanges :
          Rejected(x) =>
             /\ (Launch(x) /\ LoadToken(token_file).access_token # "")
                   => SessionDestroyed'
             /\ \A content \in Contents : \A outcome \in WriteOutcomes :
                   (login_with_token(content, x, outcome)
                       /\ parse_token_from_response(content) # "")
                   => SessionDestroyed']_vars

\* Every token held by the store, in memory or in the file, is one that
\* validate_token reported valid.
C20_StoredTokensAccepted ==
    /\ token.access_token # "" => token.access_token \in accepted
    /\ LoadToken(token_file).access_token # ""
          => LoadToken(token_file).access_token \in accepted

\* C20: the token store holds accepted tokens only, and a login attempt whose
\* text holds no token, or whose validation did not succeed, leaves the token
\* in memory and the token file as they were: no step that changes either is
\* such an attempt.
C20_StoreWrittenAfterValidation ==
    /\ []C20_StoredTokensAccepted
    /\ [][(token' # token \/ token_file' # token_file) =>
             \A content \in Contents : \A x \in Exchanges :
                (parse_token_from_response(content) = "" \/ ~ApiAccepted(x)) =>
                   \A outcome \in WriteOutcomes :
                      ~login_with_token(content, x, outcome)]_vars

\* A login with a second token was validated and saved over the first.
C20_Witness ==
    /\ token = TokenData("T2", Profile)
    /\ token_file = TokenFile(TokenData("T2", Profile))
    /\ accepted = {"T1", "T2"}
    /\ client = "T2"
    /\ logout_btn

\* The Token Store and the client hold nothing.
LoggedOut ==
    /\ token = NoToken
    /\ token_file = AbsentTokenFile
    /\ client = NoClient
    /\ ~logout_btn

\* C21: after logout the in-memory token is empty, token.json does not exist,
\* the client is unset and load_token returns the empty token; a logout in a
\* state that a logout left changes nothing but the message shown.
C21_LogoutClearsStore ==
    [][(logout \/ logout_again) =>
          /\ LoggedOut'
          /\ LoadToken(token_file') = NoToken
          /\ dialog' = Message("logged_out")
          /\ LoggedOut =>
                UNCHANGED <<token, token_file, client, logout_btn, accepted,
                            ffmpeg_path, settings, settings_file, history,
                            history_file, course_cards, downloading,
                            download_tasks, completed_count, failed_count,
                            workers, procs, afterQueue, nAdds, fetch, request,
                            reply, filesystem, os_name, path_search>>]_vars

\* A stored and accepted token was wiped by a logout.
C21_Witness ==
    /\ LoggedOut
    /\ dialog.kind = "logged_out"
    /\ "T1" \in accepted

C23_NoToolFaultInsideBatch ==
    \A w \in DOMAIN workers :
       \A k \in DOMAIN workers[w].cbLog :
          workers[w].cbLog[k].message # "ffmpeg_not_found"

\* C24: a step of a background thread leaves the batch counters, which the
\* presentation context reads, as they are.
C24_WorkerWritesNoCounter ==
    [][WorkerStep => UNCHANGED <<completed_count, failed_count>>]_vars

\* C25: within one download_video call, once a line carrying the duration
\* marker has set the total duration, it stays what it is at every later
\* line.
C25_DurationSetOnce ==
    [][\A w \in DOMAIN workers :
          (/\ workers[w].pc = "read"
           /\ workers[w].durationSeen
           /\ workers[w].duration # NoDuration
           /\ w \in DOMAIN workers'
           /\ workers'[w].pc = "read") =>
             workers'[w].duration = workers[w].duration]_vars

\* The workers whose thread has not ended.
LiveWorkers == {w \in DOMAIN workers : workers[w].pc # "ended"}

C27_CardsOfCurrentCourse ==
    [][display_chapters =>
          \A k \in DOMAIN course_cards' :
             \E j \in DOMAIN TaskList(current_course) :
                course_cards'[k].task_data = TaskList(current_course)[j]]_vars

\* C28: while the client is unset (before the first login, after a logout)
\* the course list is empty, and no listing thread comes to use the client in
\* that time.
C28_NoCoursesWithoutClient ==
    /\ [](client = NoClient => courses = <<>>)
    /\ [][\A t \in threads : ThreadCall(t) => client # NoClient]_vars

\* Discovery resolved the path on this host: it exists on disk, or it is what
\* the search command returned.
C29_Verified(path) ==
    \/ Exists(path, filesystem)
    \/ path = SearchResult(os_name, path_search)

\* C29: an executable that passes the batch pre-check is a path discovery
\* resolved.
C29_PreCheckMeansResolved ==
    (ffmpeg_path # Unset /\ PathTruthy(ffmpeg_path)) => C29_Verified(ffmpeg_path)

\* C30: two cards of the chapter list whose chapter names differ have
\* different default destination paths.
C30_DistinctNamesDistinctPaths ==
    \A i \in DOMAIN course_cards : \A j \in DOMAIN course_cards :
       course_cards[i].task_data.name # course_cards[j].task_data.name =>
          course_cards[i].path_var # course_cards[j].path_var

====
